---- MODULE Spec2Model ----
(***************************************************************************)
(* A model of epub.py: locating the packaging descriptor of an epub        *)
(* archive, extracting its metadata into a MetadataDict, the accessors of  *)
(* MetadataDict, the file name rename_file composes, and the batch loop of *)
(* main.  The source is Python 2 (sorted(..., cmp=...), types.ListType);   *)
(* the model follows Python 2 semantics.                                   *)
(*                                                                         *)
(* A Python string is a sequence of one-character strings, so that split,  *)
(* strip, upper, the regular expressions and string comparison are         *)
(* computed as the code computes them.  XML namespaces, tag names and the  *)
(* field names of a MetadataDict are only ever compared for equality and   *)
(* are plain TLA+ strings.                                                 *)
(***************************************************************************)
EXTENDS Integers, Sequences, FiniteSets, TLC

VARIABLES
    zip,        \* the archive an EpubMetaReader has open (self.zip)
    located,    \* outcome of find_contents_file on zip
    extracted,  \* outcome of get_metadata on zip
    md,         \* a MetadataDict handed to an accessor or to rename_file
    answer,     \* outcome of the accessor call made on md
    p,          \* the path rename_file is asked to rename
    files,      \* the file system: file name -> content
    fs0,        \* the file system as it was before rename_file ran
    posix,      \* whether os.rename has POSIX semantics (else Windows)
    rejects,    \* whether the file system refuses the rename
    renamed,    \* outcome of rename_file(p, md)
    in_files,   \* main: the archives named on the command line
    op,         \* main: the command
    idx,        \* main: position of the for loop in in_files
    rdr,        \* main: the reader the local variable rdr is bound to
    open,       \* main: the readers whose archive handle is open
    pc          \* position of the running call

vars == <<zip, located, extracted, md, answer, p, files, fs0, posix, rejects,
          renamed, in_files, op, idx, rdr, open, pc>>

(***************************************************************************)
(* Bounds of the model.                                                    *)
(***************************************************************************)
MaxList == 2        \* longest creator / identifier / date list drawn
MaxChildren == 2    \* most children of a metadata element drawn
MaxFiles == 2       \* most archives in one batch

(***************************************************************************)
(* Python strings.                                                         *)
(***************************************************************************)

\* The characters the model uses, in increasing code-point order.
Ascii == <<"\t", "\n", " ", "(", ")", ",", "-", ".", "/",
           "0", "1", "2", "3", "4", "5", "6", "7", "8", "9", ":",
           "A", "B", "C", "D", "E", "F", "G", "H", "I", "J", "K", "L", "M",
           "N", "O", "P", "Q", "R", "S", "T", "U", "V", "W", "X", "Y", "Z",
           "a", "b", "c", "d", "e", "f", "g", "h", "i", "j", "k", "l", "m",
           "n", "o", "p", "q", "r", "s", "t", "u", "v", "w", "x", "y", "z",
           "{", "}">>

Ord(c) == CHOOSE k \in 1..Len(Ascii) : Ascii[k] = c

Digits == {"0", "1", "2", "3", "4", "5", "6", "7", "8", "9"}
Whitespace == {"\t", "\n", " "}
LowerCase == {Ascii[k] : k \in Ord("a")..Ord("z")}
UpperCase == {Ascii[k] : k \in Ord("A")..Ord("Z")}

\* The value None, kept apart from every string: no string of the model
\* holds an element that is not a single character.
None == <<"<None>">>
\* A local variable that has not been assigned.
Unbound == <<"<unbound>">>

RECURSIVE Concat(_)
Concat(parts) ==
    IF parts = <<>> THEN <<>> ELSE Head(parts) \o Concat(Tail(parts))

\* cmp(a, b) on two strings: -1, 0 or 1 by code-point order.
RECURSIVE StrCmp(_, _)
StrCmp(a, b) ==
    IF a = <<>> /\ b = <<>> THEN 0
    ELSE IF a = <<>> THEN -1
    ELSE IF b = <<>> THEN 1
    ELSE IF Ord(Head(a)) < Ord(Head(b)) THEN -1
    ELSE IF Ord(Head(a)) > Ord(Head(b)) THEN 1
    ELSE StrCmp(Tail(a), Tail(b))

\* s.split(sep) for a one-character separator.
RECURSIVE SplitAcc(_, _, _, _)
SplitAcc(s, sep, parts, cur) ==
    IF s = <<>> THEN Append(parts, cur)
    ELSE IF Head(s) = sep
         THEN SplitAcc(Tail(s), sep, Append(parts, cur), <<>>)
         ELSE SplitAcc(Tail(s), sep, parts, Append(cur, Head(s)))

Split(s, sep) == SplitAcc(s, sep, <<>>, <<>>)

\* s.strip()
RECURSIVE LStrip(_)
LStrip(s) ==
    IF s # <<>> /\ Head(s) \in Whitespace THEN LStrip(Tail(s)) ELSE s

RECURSIVE RStrip(_)
RStrip(s) ==
    IF s # <<>> /\ s[Len(s)] \in Whitespace
    THEN RStrip(SubSeq(s, 1, Len(s) - 1))
    ELSE s

Strip(s) == RStrip(LStrip(s))

UpperChar(c) ==
    IF c \in LowerCase THEN Ascii[Ord(c) - Ord("a") + Ord("A")] ELSE c
LowerChar(c) ==
    IF c \in UpperCase THEN Ascii[Ord(c) - Ord("A") + Ord("a")] ELSE c

\* s.upper() and s.lower()
Upper(s) == [k \in 1..Len(s) |-> UpperChar(s[k])]
Lower(s) == [k \in 1..Len(s) |-> LowerChar(s[k])]

\* YEAR_RE.match(s): the matched text, or None.
YEAR_RE_match(s) ==
    IF Len(s) >= 4 /\ \A k \in 1..4 : s[k] \in Digits
    THEN SubSeq(s, 1, 4)
    ELSE None

\* CLEAN_ISBN_RE.sub('', s): every run of hyphens and spaces removed.
CLEAN_ISBN_RE_sub(s) == SelectSeq(s, LAMBDA c : c \notin {"-", " "})

\* DENAMESPACE_RE.sub('', tag): the greedy match of ^.+\} is removed, which
\* is everything up to the last "}" that has a character before it.
strip_namespace(tag) ==
    LET closing == {k \in 2..Len(tag) : tag[k] = "}"}
    IN  IF closing = {} THEN tag
        ELSE SubSeq(tag, (CHOOSE k \in closing : \A j \in closing : j <= k) + 1,
                    Len(tag))

(***************************************************************************)
(* Outcomes of a call: it returns a value, or it raises.                   *)
(***************************************************************************)
Returned(v) == [raised |-> "", val |-> v]
Raised(e) == [raised |-> e, val |-> <<>>]

\* d.get(k, default) of a dict
dict_get(d, k, default) == IF k \in DOMAIN d THEN d[k] ELSE default

(***************************************************************************)
(* MetaValue and MetadataDict.  A MetaValue is [value, attribs]; a         *)
(* MetadataDict is a function from the field names it holds to a MetaValue *)
(* (publisher, language, title, description) or to a list of MetaValues    *)
(* (creator, contributor, identifier, date).  It is a plain dict: looking  *)
(* up a key it does not hold raises KeyError.                              *)
(***************************************************************************)
MetaValue(value, attribs) == [value |-> value, attribs |-> attribs]

NoAttribs == <<>>

role_ == <<"r", "o", "l", "e">>
scheme_ == <<"s", "c", "h", "e", "m", "e">>
event_ == <<"e", "v", "e", "n", "t">>
file_as == <<"f", "i", "l", "e", "-", "a", "s">>
aut == <<"a", "u", "t">>
ISBN == <<"I", "S", "B", "N">>
publication == <<"p", "u", "b", "l", "i", "c", "a", "t", "i", "o", "n">>
UNKNOWN == <<"U", "N", "K", "N", "O", "W", "N">>

\* x.attribs.get(k): None when the attribute is missing
attribs_get(x, k) == dict_get(x.attribs, k, None)

creators(d, role) ==
    IF "creator" \notin DOMAIN d THEN Raised("KeyError")
    ELSE IF role # None /\ role # <<>>
         THEN Returned(SelectSeq(d["creator"],
                                 LAMBDA x : attribs_get(x, role_) = role))
         ELSE Returned(d["creator"])

authors(d) == creators(d, aut)

identifiers(d, scheme) ==
    IF "identifier" \notin DOMAIN d THEN Raised("KeyError")
    ELSE IF scheme # None /\ scheme # <<>>
         THEN Returned(SelectSeq(d["identifier"],
                                 LAMBDA x : attribs_get(x, scheme_) = scheme))
         ELSE Returned(d["identifier"])

isbn(d) == identifiers(d, ISBN)

dates(d, event) ==
    IF "date" \notin DOMAIN d THEN Raised("KeyError")
    ELSE IF event # None /\ event # <<>>
         THEN Returned(SelectSeq(d["date"],
                                 LAMBDA x : attribs_get(x, event_) = event))
         ELSE Returned(d["date"])

publication_date(d) == dates(d, publication)

(***************************************************************************)
(* rename_file                                                             *)
(***************************************************************************)

\* sorted(dateval, cmp=lambda x, y: cmp(x.value, y.value)): a stable sort,
\* each entry placed after the entries that do not compare greater.
InsertByValue(sortedSeq, x) ==
    LET before == {k \in 1..Len(sortedSeq) :
                     \A j \in 1..k : StrCmp(sortedSeq[j].value, x.value) <= 0}
        n == Cardinality(before)
    IN  SubSeq(sortedSeq, 1, n) \o <<x>> \o SubSeq(sortedSeq, n + 1, Len(sortedSeq))

\* a rename_file that takes the first date in document order
UnsortedDates(list) == list

RECURSIVE sorted_by_value(_)
sorted_by_value(list) ==
    IF list = <<>> THEN <<>>
    ELSE InsertByValue(sorted_by_value(SubSeq(list, 1, Len(list) - 1)),
                       list[Len(list)])

\* lines 61-66: the surname of the first author; name stays unassigned when
\* there is no author
surname_slot(auths) ==
    IF auths # <<>>
    THEN LET first_auth == auths[1]
             from_file_as ==
                 Split(dict_get(first_auth.attribs, file_as, <<>>), ",")[1]
             tokens == Split(first_auth.value, " ")
             last_token == tokens[Len(tokens)]
         IN  IF from_file_as # <<>> THEN from_file_as
             ELSE IF last_token # <<>> THEN last_token
             ELSE UNKNOWN
    ELSE Unbound

\* lines 69-77: dateval is the list to choose from ([] stands for a false
\* value)
year_slot(dateval) ==
    LET m == IF dateval # <<>>
             THEN YEAR_RE_match(sorted_by_value(dateval)[1].value)
             ELSE None
    IN  IF m # None /\ m # <<>> THEN m ELSE UNKNOWN

\* lines 80-85
title_slot(d) ==
    IF "title" \in DOMAIN d
    THEN Split(d["title"].value, ":")[1]
    ELSE UNKNOWN

\* lines 93-98: the first identifier whose cleaned form is 10 or 13 long
RECURSIVE scan_identifiers(_)
scan_identifiers(list) ==
    IF list = <<>> THEN UNKNOWN
    ELSE LET id_val == Upper(CLEAN_ISBN_RE_sub(Head(list).value))
         IN  IF Len(id_val) \in {10, 13} THEN id_val
             ELSE scan_identifiers(Tail(list))

\* a rename_file that ignores the scheme and goes by length alone
IsbnByLengthOnly(ids, all) == scan_identifiers(all)

\* lines 88-98, given ids = md.isbn() and all = md.identifiers()
isbn_slot(ids, all) ==
    IF ids # <<>>
    THEN Upper(CLEAN_ISBN_RE_sub(ids[1].value))
    ELSE scan_identifiers(all)

\* lines 101-106
format_name(name, pubdate, short_title, isbn_) ==
    Concat(<<name, <<" ", "(">>, pubdate, <<")", " ">>, short_title,
             <<" ", "(", "i", "s", "b", "n">>, isbn_,
             <<")", ".", "e", "p", "u", "b">>>>)

\* os.rename(src, dst) (line 108) on the file system fs.  On POSIX an
\* existing destination file is replaced silently; on Windows OSError is
\* raised.  `rejected` stands for any other refusal by the file system.
os_rename(src, dst, fs, isPosix, rejected) ==
    IF rejected \/ src \notin DOMAIN fs
    THEN [raised |-> "OSError", files |-> fs]
    ELSE IF dst = src
    THEN [raised |-> "", files |-> fs]
    ELSE IF dst \in DOMAIN fs /\ ~isPosix
    THEN [raised |-> "OSError", files |-> fs]
    ELSE [raised |-> "",
          files |-> [f \in (DOMAIN fs \ {src}) \cup {dst} |->
                        IF f = dst THEN fs[src] ELSE fs[f]]]

NotRun(fs) ==
    [raised |-> "", name |-> Unbound, pubdate |-> Unbound,
     short_title |-> Unbound, isbn |-> Unbound, new_file_name |-> Unbound,
     files |-> fs]

\* rename_file(p, md): the slots it assigned, the error it raised ("" when
\* it returned) and the file system it left.
rename_file(path, d, fs, isPosix, rejected) ==
    LET r0 == NotRun(fs)
        a == authors(d)
        c == creators(d, None)
    IN
    IF a.raised # "" THEN [r0 EXCEPT !.raised = a.raised]
    ELSE IF a.val = <<>> /\ c.raised # "" THEN [r0 EXCEPT !.raised = c.raised]
    ELSE
    LET auths == IF a.val # <<>> THEN a.val ELSE c.val
        r1 == [r0 EXCEPT !.name = surname_slot(auths)]
        pd == publication_date(d)
    IN
    IF pd.raised # "" THEN [r1 EXCEPT !.raised = pd.raised]
    ELSE
    LET dateval == IF pd.val # <<>> THEN pd.val ELSE dict_get(d, "date", <<>>)
        r2 == [r1 EXCEPT !.pubdate = year_slot(dateval)]
        r3 == [r2 EXCEPT !.short_title = title_slot(d)]
        ids == isbn(d)
        all == identifiers(d, None)
    IN
    IF ids.raised # "" THEN [r3 EXCEPT !.raised = ids.raised]
    ELSE IF ids.val = <<>> /\ all.raised # "" THEN [r3 EXCEPT !.raised = all.raised]
    ELSE
    LET r4 == [r3 EXCEPT !.isbn = isbn_slot(ids.val, all.val)]
    IN
    IF r4.name = Unbound THEN [r4 EXCEPT !.raised = "UnboundLocalError"]
    ELSE
    LET new_file_name ==
            format_name(r4.name, r4.pubdate, r4.short_title, r4.isbn)
        mv == os_rename(path, new_file_name, fs, isPosix, rejected)
    IN  [r4 EXCEPT !.new_file_name = new_file_name,
                   !.raised = mv.raised,
                   !.files = mv.files]

(***************************************************************************)
(* The MetadataDicts the accessors and rename_file are run on.             *)
(***************************************************************************)
SeqsUpTo(S, n) == UNION {[1..k -> S] : k \in 0..n}

Attr(k, v) == k :> v

DateValues ==
    { <<"2", "0", "0", "5", "-", "0", "3", "-", "0", "1">>,
      <<"1", "9", "9", "9", "-", "0", "7", "-", "1", "5">>,
      <<"1", "9", "9", "9">>,
      <<"n", ".", "d", ".">>,
      <<>> }
DateAttribs ==
    { NoAttribs, Attr(event_, publication),
      Attr(event_, <<"c", "r", "e", "a", "t", "i", "o", "n">>) }
DateEntries == {MetaValue(v, a) : v \in DateValues, a \in DateAttribs}

IdValues ==
    { <<"9", "7", "8", "-", "0", "-", "1", "3", "-", "4", "6", "8", "5", "9",
        "9", "-", "1">>,
      <<"0", "-", "3", "0", "6", "-", "4", "0", "6", "1", "5", "-", "x">>,
      <<"u", "r", "n", ":", "u", "u", "i", "d", ":", "1">>,
      <<"i", "d", "4", "2">> }
IdAttribs ==
    { NoAttribs, Attr(scheme_, ISBN), Attr(scheme_, <<"U", "R", "I">>) }
IdEntries == {MetaValue(v, a) : v \in IdValues, a \in IdAttribs}

CreatorValues ==
    { <<"J", "a", "n", "e", " ", "D", "o", "e">>, <<"R", "o", "e">>, <<>> }
CreatorAttribs ==
    { NoAttribs,
      Attr(role_, aut) @@ Attr(file_as, <<"D", "o", "e", ",", " ", "J", "a", "n", "e">>),
      Attr(role_, <<"e", "d", "t">>),
      Attr(file_as, <<>>) }
CreatorEntries == {MetaValue(v, a) : v \in CreatorValues, a \in CreatorAttribs}

TitleValues == { <<"A", ":", " ", "B">>, <<"T">>, <<>> }

BaseDict ==
    "creator" :> << MetaValue(<<"J", "a", "n", "e", " ", "D", "o", "e">>,
                              Attr(role_, aut)) >>
    @@ "date" :> << MetaValue(<<"1", "9", "9", "9">>, Attr(event_, publication)) >>
    @@ "identifier" :> << MetaValue(<<"i", "d", "4", "2">>, Attr(scheme_, ISBN)) >>
    @@ "title" :> MetaValue(<<"T">>, NoAttribs)

With(d, k, v) == [f \in DOMAIN d \cup {k} |-> IF f = k THEN v ELSE d[f]]
Only(d, keys) == [f \in DOMAIN d \cap keys |-> d[f]]

\* BaseDict with one field varied, or with some fields missing
MetadataDicts ==
    {With(BaseDict, "date", l) : l \in SeqsUpTo(DateEntries, MaxList)}
    \cup {With(BaseDict, "identifier", l) : l \in SeqsUpTo(IdEntries, MaxList)}
    \cup {With(BaseDict, "creator", l) : l \in SeqsUpTo(CreatorEntries, MaxList)}
    \cup {With(BaseDict, "title", MetaValue(v, NoAttribs)) : v \in TitleValues}
    \cup {Only(BaseDict, keys) : keys \in SUBSET DOMAIN BaseDict}

SourcePath == <<"a", ".", "e", "p", "u", "b">>

\* values of the variables a specification does not use
NoZip == <<>>
NotCalled == Raised("not called")
NoAnswer == [call |-> "", out |-> NotCalled]

AccessIdle ==
    /\ p = SourcePath /\ files = <<>> /\ fs0 = <<>>
    /\ posix = TRUE /\ rejects = FALSE
    /\ renamed = NotRun(<<>>)
RenameIdle == answer = NoAnswer
ReaderIdle ==
    zip = NoZip /\ located = NotCalled /\ extracted = [raised |-> "not called", none |-> FALSE, val |-> <<>>]
MainIdle == in_files = <<>> /\ op = "" /\ idx = 0 /\ rdr = 0 /\ open = {}

(***************************************************************************)
(* The accessors of MetadataDict, each called on a MetadataDict.           *)
(***************************************************************************)
InitAccess ==
    /\ md \in MetadataDicts
    /\ answer = NoAnswer
    /\ pc = "start"
    /\ AccessIdle /\ ReaderIdle /\ MainIdle

Answer(call, out) ==
    /\ pc = "start"
    /\ answer' = [call |-> call, out |-> out]
    /\ pc' = "done"
    /\ UNCHANGED <<zip, located, extracted, md, p, files, fs0, posix, rejects,
                   renamed, in_files, op, idx, rdr, open>>

CallCreators == \E role \in {None, aut} : Answer("creators", creators(md, role))
CallAuthors == Answer("authors", authors(md))
CallIdentifiers ==
    \E scheme \in {None, ISBN} : Answer("identifiers", identifiers(md, scheme))
CallIsbn == Answer("isbn", isbn(md))
CallDates == \E event \in {None, publication} : Answer("dates", dates(md, event))
CallPublicationDate == Answer("publication_date", publication_date(md))

NextAccess ==
    \/ CallCreators
    \/ CallAuthors
    \/ CallIdentifiers
    \/ CallIsbn
    \/ CallDates
    \/ CallPublicationDate

SpecAccess == InitAccess /\ [][NextAccess]_vars

(***************************************************************************)
(* rename_file called on a MetadataDict, with the file p in place and,     *)
(* possibly, a file already under the name rename_file composes.           *)
(***************************************************************************)
ComposedName(d) ==
    rename_file(SourcePath, d, SourcePath :> "book", TRUE, FALSE).new_file_name

InitRename ==
    /\ md \in MetadataDicts
    /\ p = SourcePath
    /\ \E taken \in BOOLEAN :
          files = IF taken /\ ComposedName(md) # Unbound
                  THEN (SourcePath :> "book") @@ (ComposedName(md) :> "other")
                  ELSE SourcePath :> "book"
    /\ fs0 = files
    /\ posix \in BOOLEAN
    /\ rejects \in BOOLEAN
    /\ renamed = NotRun(files)
    /\ pc = "start"
    /\ RenameIdle /\ ReaderIdle /\ MainIdle

CallRenameFile ==
    /\ pc = "start"
    /\ renamed' = rename_file(p, md, files, posix, rejects)
    /\ files' = renamed'.files
    /\ pc' = "done"
    /\ UNCHANGED <<zip, located, extracted, md, answer, p, fs0, posix, rejects,
                   in_files, op, idx, rdr, open>>

NextRename == CallRenameFile

SpecRename == InitRename /\ [][NextRename]_vars

(***************************************************************************)
(* The archive.  self.zip is a function from the member paths (namelist)   *)
(* to the member's content: [kind, root], with kind "corrupt" (reading the *)
(* member fails), "empty" (no bytes), "malformed" (bytes that are not      *)
(* well-formed XML) or "xml" (a document whose root element has the        *)
(* children root).  An element is [ns, tag, text, attrib, children].       *)
(***************************************************************************)
OPF_NS == "http://www.idpf.org/2007/opf"
DC_NS == "http://purl.org/dc/elements/1.1/"
CONTAINER_NS == "urn:oasis:names:tc:opendocument:xmlns:container"
OTHER_NS == "urn:other"

Element(ns, tag, text, attrib, children) ==
    [ns |-> ns, tag |-> tag, text |-> text, attrib |-> attrib,
     children |-> children]

Content(kind, root) == [kind |-> kind, root |-> root]

container_xml ==
    <<"M", "E", "T", "A", "-", "I", "N", "F", "/", "c", "o", "n", "t", "a",
      "i", "n", "e", "r", ".", "x", "m", "l">>
OEBPS_content_opf ==
    <<"O", "E", "B", "P", "S", "/", "c", "o", "n", "t", "e", "n", "t", ".",
      "o", "p", "f">>
OEBPS_Content_opf ==
    <<"O", "E", "B", "P", "S", "/", "C", "o", "n", "t", "e", "n", "t", ".",
      "o", "p", "f">>
content_opf == <<"c", "o", "n", "t", "e", "n", "t", ".", "o", "p", "f">>
Content_opf == <<"C", "o", "n", "t", "e", "n", "t", ".", "o", "p", "f">>
full_path == <<"f", "u", "l", "l", "-", "p", "a", "t", "h">>

\* ZipFile.namelist()
namelist(z) == DOMAIN z

\* ZipFile.read(name)
zip_read(z, name) ==
    IF name \notin DOMAIN z THEN Raised("KeyError")
    ELSE IF z[name].kind = "corrupt" THEN Raised("BadZipfile")
    ELSE Returned(z[name])

\* et.fromstring(text): the root element's children, or ParseError
et_fromstring(text) ==
    IF text.kind = "xml" THEN Returned(text.root) ELSE Raised("ParseError")

\* the children of an element list that carry the tag {ns}tag
findall(children, ns, tag) ==
    SelectSeq(children, LAMBDA e : e.ns = ns /\ e.tag = tag)

\* Element.find("{ns}a/{ns}b") from the root: the first b child of an a
\* child, in document order; <<>> stands for "no such element"
find_path(root, ns, a, b) ==
    LET as == findall(root, ns, a)
        bs == Concat([k \in 1..Len(as) |-> findall(as[k].children, ns, b)])
    IN  IF bs = <<>> THEN <<>> ELSE <<bs[1]>>

\* read_container_file (lines 301-307)
read_container_file(z) == zip_read(z, container_xml)

\* contents_path_from_container (lines 309-326)
contents_path_from_container(z) ==
    LET container_text == read_container_file(z)
    IN  IF container_text.raised # "" THEN Raised(container_text.raised)
        ELSE IF container_text.val.kind = "empty" THEN Returned(None)
        ELSE LET container_tree == et_fromstring(container_text.val)
             IN  IF container_tree.raised # "" THEN Raised(container_tree.raised)
                 ELSE LET rootfile == find_path(container_tree.val, CONTAINER_NS,
                                                "rootfiles", "rootfile")
                      IN  IF rootfile # <<>>
                          THEN Returned(dict_get(rootfile[1].attrib, full_path, None))
                          ELSE Returned(None)

\* the for loop of find_contents_file (lines 295-299)
RECURSIVE first_member(_, _)
first_member(possible_paths, zip_contents) ==
    IF possible_paths = <<>> THEN None
    ELSE IF Head(possible_paths) \in zip_contents THEN Head(possible_paths)
    ELSE first_member(Tail(possible_paths), zip_contents)

\* find_contents_file (lines 270-299)
find_contents_file(z) ==
    LET declared == contents_path_from_container(z)
    IN  IF declared.raised # "" THEN Raised(declared.raised)
        ELSE Returned(first_member(<<declared.val, OEBPS_content_opf,
                                     OEBPS_Content_opf, content_opf,
                                     Content_opf>>,
                                   namelist(z)))

\* read_contents_file (lines 260-268); the None it returns when no path
\* was found is the content NoContents
NoContents == Content("None", <<>>)

read_contents_file(z) ==
    LET contents_path == find_contents_file(z)
    IN  IF contents_path.raised # "" THEN Raised(contents_path.raised)
        ELSE IF contents_path.val # None /\ contents_path.val # <<>>
        THEN zip_read(z, find_contents_file(z).val)
        ELSE Returned(NoContents)

\* clean_attribs (lines 128-129)
clean_key(k) == Lower(strip_namespace(k))
clean_attribs(attrib_dict) ==
    [c \in {clean_key(k) : k \in DOMAIN attrib_dict} |->
        attrib_dict[CHOOSE k \in DOMAIN attrib_dict : clean_key(k) = c]]

\* a conversion that passes the element's text on as it is
RawText(xml_tag) == MetaValue(xml_tag.text, clean_attribs(xml_tag.attrib))

\* tag_to_metval (lines 132-137)
tag_to_metval(xml_tag) ==
    LET val_name == IF xml_tag.text # None /\ xml_tag.text # <<>>
                    THEN Strip(xml_tag.text)
                    ELSE <<>>
    IN  MetaValue(val_name, clean_attribs(xml_tag.attrib))

SingleFields == {"publisher", "language", "title", "description"}
MultiFields == {"creator", "contributor", "identifier", "date"}

\* lines 247-256: the MetadataDict built from the metadata element m
build_md_dict(m) ==
    [t \in {f \in SingleFields \cup MultiFields :
               findall(m.children, DC_NS, f) # <<>>} |->
        LET elems == findall(m.children, DC_NS, t)
        IN  IF t \in SingleFields
            THEN tag_to_metval(elems[1])
            ELSE [k \in 1..Len(elems) |-> tag_to_metval(elems[k])]]

\* Outcomes of get_metadata: an error, None, or a MetadataDict
GotError(e) == [raised |-> e, none |-> FALSE, val |-> <<>>]
GotNone == [raised |-> "", none |-> TRUE, val |-> <<>>]
GotDict(d) == [raised |-> "", none |-> FALSE, val |-> d]

\* get_metadata (lines 214-258)
get_metadata(z) ==
    LET contents == read_contents_file(z)
    IN  IF contents.raised # "" THEN GotError(contents.raised)
        ELSE IF contents.val.kind \in {"None", "empty"} THEN GotNone
        ELSE LET con_tree == et_fromstring(contents.val)
             IN  IF con_tree.raised # "" THEN GotError(con_tree.raised)
                 ELSE LET m == findall(con_tree.val, OPF_NS, "metadata")
                      IN  IF m # <<>> THEN GotDict(build_md_dict(m[1]))
                          ELSE GotNone

(***************************************************************************)
(* The archives find_contents_file and get_metadata are run on.            *)
(***************************************************************************)
OEBPS_book_opf ==
    <<"O", "E", "B", "P", "S", "/", "b", "o", "o", "k", ".", "o", "p", "f">>
gone_opf == <<"g", "o", "n", "e", ".", "o", "p", "f">>

DescriptorPaths ==
    {OEBPS_book_opf, OEBPS_content_opf, OEBPS_Content_opf, content_opf,
     Content_opf}

RootFile(attrib) == Element(CONTAINER_NS, "rootfile", None, attrib, <<>>)
RootFiles(ns, children) == Element(ns, "rootfiles", None, NoAttribs, children)

\* container documents: one that declares full-path = path, and the ones
\* that declare nothing
Declaring(path) ==
    Content("xml", <<RootFiles(CONTAINER_NS, <<RootFile(Attr(full_path, path))>>)>>)

SilentContainers ==
    { Content("empty", <<>>),
      Content("xml", <<>>),
      Content("xml", <<RootFiles(CONTAINER_NS, <<>>)>>),
      Content("xml", <<RootFiles(OTHER_NS, <<RootFile(Attr(full_path, content_opf))>>)>>),
      Content("xml", <<RootFiles(CONTAINER_NS, <<RootFile(NoAttribs)>>)>>) }

UnreadableContainers == { Content("corrupt", <<>>), Content("malformed", <<>>) }

Containers ==
    SilentContainers \cup UnreadableContainers
    \cup {Declaring(path) : path \in {OEBPS_book_opf, content_opf, gone_opf}}

\* an archive: the descriptor members `names`, each holding `doc`, and the
\* container member when `container` is given as a one-element sequence
Archive(names, container, doc) ==
    [n \in names \cup (IF container = <<>> THEN {} ELSE {container_xml}) |->
        IF n = container_xml /\ container # <<>> THEN container[1] ELSE doc]

Metadata(children) == Element(OPF_NS, "metadata", None, NoAttribs, children)
Manifest == Element(OPF_NS, "manifest", None, NoAttribs, <<>>)

ChildTexts == { None, <<" ">>, <<" ", "a", " ">> }
ChildAttribs == { NoAttribs, Attr(<<"{", "o", "}", "R", "o", "l", "e">>, aut) }
ChildElements ==
    { Element(ns, tag, text, attrib, <<>>) :
        ns \in {DC_NS, OPF_NS}, tag \in {"title", "creator", "subject"},
        text \in ChildTexts, attrib \in ChildAttribs }

PlainDoc == Content("xml", <<Manifest, Metadata(<<>>)>>)

\* packaging descriptors without a usable metadata element, or unreadable
OddDocs ==
    { Content("corrupt", <<>>), Content("empty", <<>>),
      Content("malformed", <<>>),
      Content("xml", <<>>),
      Content("xml", <<Manifest>>),
      Content("xml", <<Element(OTHER_NS, "metadata", None, NoAttribs,
                               <<Element(DC_NS, "title", <<"a">>, NoAttribs, <<>>)>>)>>) }

MetadataDocs ==
    { Content("xml", <<Manifest, Metadata(children)>>) :
        children \in SeqsUpTo(ChildElements, MaxChildren) }

LocateArchives ==
    { Archive(names, container, PlainDoc) :
        names \in SUBSET DescriptorPaths,
        container \in {<<>>} \cup {<<c>> : c \in Containers} }

ExtractArchives ==
    { Archive({OEBPS_book_opf}, <<Declaring(OEBPS_book_opf)>>, doc) :
        doc \in MetadataDocs \cup OddDocs }
    \cup
    { Archive(names, container, doc) :
        names \in {{}, {content_opf}, {OEBPS_book_opf, Content_opf}},
        container \in {<<>>} \cup {<<c>> : c \in Containers},
        doc \in OddDocs \cup {PlainDoc} }

(***************************************************************************)
(* find_contents_file called on a reader's archive.                        *)
(***************************************************************************)
InitLocate ==
    /\ zip \in LocateArchives
    /\ located = NotCalled
    /\ extracted = GotError("not called")
    /\ md = <<>>
    /\ pc = "start"
    /\ AccessIdle /\ RenameIdle /\ MainIdle

CallFindContentsFile ==
    /\ pc = "start"
    /\ located' = find_contents_file(zip)
    /\ pc' = "done"
    /\ UNCHANGED <<zip, extracted, md, answer, p, files, fs0, posix, rejects,
                   renamed, in_files, op, idx, rdr, open>>

NextLocate == CallFindContentsFile

SpecLocate == InitLocate /\ [][NextLocate]_vars

(***************************************************************************)
(* get_metadata called on a reader's archive.                              *)
(***************************************************************************)
InitExtract ==
    /\ zip \in ExtractArchives
    /\ located = NotCalled
    /\ extracted = GotError("not called")
    /\ md = <<>>
    /\ pc = "start"
    /\ AccessIdle /\ RenameIdle /\ MainIdle

CallGetMetadata ==
    /\ pc = "start"
    /\ located' = find_contents_file(zip)
    /\ extracted' = get_metadata(zip)
    /\ pc' = "done"
    /\ UNCHANGED <<zip, md, answer, p, files, fs0, posix, rejects,
                   renamed, in_files, op, idx, rdr, open>>

NextExtract == CallGetMetadata

SpecExtract == InitExtract /\ [][NextExtract]_vars

(***************************************************************************)
(* main (lines 366-403): the loop over the archives of the command line.   *)
(* As written main stops with a NameError before the loop (parse_args uses *)
(* OptionParser, which is never imported, and the loop reads in_files and  *)
(* op where parse_args returns infiles and cmd); the loop is modelled with *)
(* in_files and op bound to what parse_args returns.                       *)
(* EpubMetaReader has no close: the handle ZipFile opened is               *)
(* released when the reader object is finalized, which can happen once no  *)
(* variable is bound to it, at a moment the Python implementation chooses. *)
(***************************************************************************)
FullDoc ==
    Content("xml",
        <<Metadata(<<Element(DC_NS, "title", <<"T">>, NoAttribs, <<>>),
                     Element(DC_NS, "creator", <<"R", "o", "e">>, NoAttribs, <<>>),
                     Element(DC_NS, "date", <<"1", "9", "9", "9">>, NoAttribs, <<>>),
                     Element(DC_NS, "identifier", <<"i", "d", "4", "2">>,
                             NoAttribs, <<>>)>>)>>)

ZipFileOf(z) == [valid |-> TRUE, zip |-> z]
NotAZipFile == [valid |-> FALSE, zip |-> <<>>]

BatchArchives ==
    { ZipFileOf(Archive({OEBPS_book_opf}, <<Declaring(OEBPS_book_opf)>>, FullDoc)),
      ZipFileOf(Archive({OEBPS_book_opf}, <<Declaring(OEBPS_book_opf)>>, PlainDoc)),
      ZipFileOf(Archive({content_opf}, <<>>, FullDoc)),
      ZipFileOf(Archive({content_opf}, <<Content("empty", <<>>)>>,
                        Content("malformed", <<>>))),
      ZipFileOf(Archive({}, <<Declaring(gone_opf)>>, PlainDoc)),
      NotAZipFile }

\* the path of the k-th archive of the command line
PathAt(k) == <<Ascii[Ord("0") + k], ".", "e", "p", "u", "b">>

InitMain ==
    /\ in_files \in SeqsUpTo(BatchArchives, MaxFiles)
    /\ op \in {"list", "rename"}
    /\ idx = 0 /\ rdr = 0 /\ open = {}
    /\ files = [f \in {PathAt(k) : k \in 1..Len(in_files)} |-> "book"]
    /\ fs0 = files
    /\ posix \in BOOLEAN
    /\ rejects \in BOOLEAN
    /\ renamed = NotRun(files)
    /\ extracted = GotError("not called")
    /\ zip = NoZip /\ located = NotCalled
    /\ md = <<>> /\ p = SourcePath
    /\ pc = "loop"
    /\ RenameIdle

\* lines 369-371: the next archive is opened and rdr bound to its reader;
\* ZipFile raises on a file that is no archive
OpenReader ==
    /\ pc = "loop" /\ idx < Len(in_files)
    /\ idx' = idx + 1
    /\ IF in_files[idx + 1].valid
       THEN /\ open' = open \cup {idx + 1}
            /\ rdr' = idx + 1
            /\ zip' = in_files[idx + 1].zip
            /\ pc' = "opened"
       ELSE /\ pc' = "crashed"
            /\ UNCHANGED <<open, rdr, zip>>
    /\ UNCHANGED <<located, extracted, md, answer, p, files, fs0, posix,
                   rejects, renamed, in_files, op>>

\* line 369: the loop is over and main returns
ReturnFromMain ==
    /\ pc = "loop" /\ idx = Len(in_files)
    /\ pc' = "returned"
    /\ rdr' = 0
    /\ UNCHANGED <<zip, located, extracted, md, answer, p, files, fs0, posix,
                   rejects, renamed, in_files, op, idx, open>>

\* line 372
ReadMetadata ==
    /\ pc = "opened"
    /\ extracted' = get_metadata(zip)
    /\ pc' = IF extracted'.raised # "" THEN "crashed" ELSE "got"
    /\ UNCHANGED <<zip, located, md, answer, p, files, fs0, posix, rejects,
                   renamed, in_files, op, idx, rdr, open>>

\* lines 374-399: u"----\n" % p raises TypeError (no conversion in the
\* format), and md.items() raises AttributeError when md is None
ListMetadata ==
    /\ pc = "got" /\ op = "list"
    /\ pc' = "crashed"
    /\ UNCHANGED <<zip, located, extracted, md, answer, p, files, fs0, posix,
                   rejects, renamed, in_files, op, idx, rdr, open>>

\* lines 402-403: rename_file(p, md); md.authors() raises AttributeError
\* when md is None.  On Windows a file that is open cannot be renamed.
RenameArchive ==
    /\ pc = "got" /\ op = "rename"
    /\ IF extracted.none
       THEN /\ pc' = "crashed"
            /\ UNCHANGED <<md, p, files, renamed>>
       ELSE /\ md' = extracted.val
            /\ p' = PathAt(idx)
            /\ renamed' = rename_file(p', md', files, posix,
                                      rejects \/ (~posix /\ idx \in open))
            /\ files' = renamed'.files
            /\ pc' = IF renamed'.raised # "" THEN "crashed" ELSE "loop"
    /\ UNCHANGED <<zip, located, extracted, answer, fs0, posix, rejects,
                   in_files, op, idx, rdr, open>>

\* a reader no variable is bound to is finalized and its handle released;
\* when main has ended every reader is
Finalize ==
    /\ \E h \in open :
          /\ h # rdr \/ pc \in {"returned", "crashed"}
          /\ open' = open \ {h}
    /\ UNCHANGED <<zip, located, extracted, md, answer, p, files, fs0, posix,
                   rejects, renamed, in_files, op, idx, rdr, pc>>

NextMain ==
    \/ OpenReader
    \/ ReturnFromMain
    \/ ReadMetadata
    \/ ListMetadata
    \/ RenameArchive
    \/ Finalize

SpecMain == InitMain /\ [][NextMain]_vars

(***************************************************************************)
(* Properties.                                                             *)
(***************************************************************************)

\* the smallest element of a non-empty set of integers
Least(S) == CHOOSE k \in S : \A j \in S : k <= j

\* The path the container member of zip declares, None when it declares
\* none, read off the document itself.
DeclaredPath ==
    IF container_xml \in DOMAIN zip
       /\ \E path \in DescriptorPaths \cup {gone_opf} :
             zip[container_xml] = Declaring(path)
    THEN CHOOSE path \in DescriptorPaths \cup {gone_opf} :
             zip[container_xml] = Declaring(path)
    ELSE None

\* The container member can be read and parsed.
ContainerReadable ==
    /\ container_xml \in DOMAIN zip
    /\ zip[container_xml].kind \in {"empty", "xml"}

Candidates ==
    <<DeclaredPath, OEBPS_content_opf, OEBPS_Content_opf, content_opf,
      Content_opf>>

FirstCandidatePresent ==
    LET hits == {k \in 1..Len(Candidates) : Candidates[k] \in DOMAIN zip}
    IN  IF hits = {} THEN None ELSE Candidates[Least(hits)]

\* C1: find_contents_file returns the first entry of [declared full-path,
\* OEBPS/content.opf, OEBPS/Content.opf, content.opf, Content.opf] that is
\* a member of the archive, and None when no entry is a member.
C1_FirstCandidateWins ==
    pc = "done" => located = Returned(FirstCandidatePresent)

\* What holds of find_contents_file: it returns whenever the container
\* member can be read and parsed, and whenever it returns, the result is
\* the first candidate that is a member, None when none is.
FirstCandidateWinsWhenItReturns ==
    pc = "done" =>
        /\ ContainerReadable => located.raised = ""
        /\ located.raised = "" => located.val = FirstCandidatePresent

\* C3: when the container member is missing, cannot be read, or declares no
\* full-path, find_contents_file does not fail and returns the first of the
\* four fallback paths that is a member (None when none is); without a
\* container and with content.opf but neither OEBPS variant, it returns
\* content.opf.
C3_FallbacksWithoutContainer ==
    (pc = "done" /\ DeclaredPath = None) =>
        /\ located.raised = ""
        /\ located.val = FirstCandidatePresent

\* The packaging descriptor of the archive: the member under the first
\* candidate path that is a member.
Descriptor == zip[FirstCandidatePresent]

HasMetadataElement(doc) ==
    /\ doc.kind = "xml"
    /\ \E k \in 1..Len(doc.root) :
          doc.root[k].ns = OPF_NS /\ doc.root[k].tag = "metadata"

MetadataElement(doc) ==
    doc.root[Least({k \in 1..Len(doc.root) :
                      doc.root[k].ns = OPF_NS /\ doc.root[k].tag = "metadata"})]

\* the positions of the children of m tagged t in the bibliographic namespace
Tagged(m, t) ==
    {k \in 1..Len(m.children) :
        m.children[k].ns = DC_NS /\ m.children[k].tag = t}

NoModelledChild(m) == \A t \in SingleFields \cup MultiFields : Tagged(m, t) = {}

\* the three outcomes of get_metadata, with NotWellFormed the kinds of
\* descriptor that count as not well-formed XML
ThreeOutcomes(NotWellFormed) ==
    /\ FirstCandidatePresent = None => extracted = GotNone
    /\ (FirstCandidatePresent # None /\ Descriptor.kind = "xml"
        /\ ~HasMetadataElement(Descriptor)) => extracted = GotNone
    /\ (FirstCandidatePresent # None /\ Descriptor.kind \in NotWellFormed) =>
           extracted.raised # ""
    /\ (FirstCandidatePresent # None /\ HasMetadataElement(Descriptor)) =>
           /\ extracted.raised = ""
           /\ ~extracted.none
           /\ NoModelledChild(MetadataElement(Descriptor)) =>
                  DOMAIN extracted.val = {}

\* C5: get_metadata returns None when no packaging descriptor is located
\* or the descriptor parses but has no metadata element; it raises when the
\* descriptor is not well-formed XML (bytes that do not parse, or no bytes
\* at all); it returns a MetadataDict when a metadata element exists, an
\* empty one when the element has none of the eight children.
C5_ThreeOutcomes == pc = "done" => ThreeOutcomes({"malformed", "empty"})

\* What holds of get_metadata: the three outcomes, whenever
\* find_contents_file returns, with a descriptor of zero bytes giving None
\* instead of an error.
ThreeOutcomesWhenLocated ==
    (pc = "done" /\ located.raised = "") =>
        /\ located.val = FirstCandidatePresent
        /\ ThreeOutcomes({"malformed"})
        /\ (FirstCandidatePresent # None /\ Descriptor.kind = "empty") =>
               extracted = GotNone

\* the text a child element contributes: trimmed, empty when it has none
TextOf(e) == IF e.text = None THEN <<>> ELSE Strip(e.text)

\* the j-th smallest element of a set of integers
Nth(S, j) == CHOOSE k \in S : Cardinality({i \in S : i <= k}) = j

\* C6: in a MetadataDict returned by get_metadata a field is a key exactly
\* when the metadata element has a child of that tag in the bibliographic
\* namespace; a single field maps to the MetaValue of the first such child,
\* a multi field to the non-empty list of the MetaValues of all such
\* children in document order; a child without text has value "".
C6_KeyIffTag ==
    (pc = "done" /\ extracted.raised = "" /\ ~extracted.none) =>
        LET m == MetadataElement(Descriptor)
            d == extracted.val
        IN  /\ DOMAIN d \subseteq SingleFields \cup MultiFields
            /\ \A t \in SingleFields \cup MultiFields :
                  /\ t \in DOMAIN d <=> Tagged(m, t) # {}
                  /\ (t \in DOMAIN d /\ t \in SingleFields) =>
                        d[t].value = TextOf(m.children[Least(Tagged(m, t))])
                  /\ (t \in DOMAIN d /\ t \in MultiFields) =>
                        /\ Len(d[t]) = Cardinality(Tagged(m, t))
                        /\ Len(d[t]) > 0
                        /\ \A j \in 1..Len(d[t]) :
                              d[t][j].value =
                                  TextOf(m.children[Nth(Tagged(m, t), j)])

C6_Witness ==
    /\ pc = "done" /\ extracted.raised = "" /\ ~extracted.none
    /\ DOMAIN extracted.val = {"creator"}
    /\ Len(extracted.val["creator"]) = 2
    /\ extracted.val["creator"][1].value = <<>>
    /\ extracted.val["creator"][2].value = <<"a">>
    /\ MetadataElement(Descriptor).children[1].text = None

\* the accessor calls and the field each reads
FieldOf(call) ==
    CASE call \in {"creators", "authors"} -> "creator"
      [] call \in {"identifiers", "isbn"} -> "identifier"
      [] call \in {"dates", "publication_date"} -> "date"

\* C2: an accessor called on a MetadataDict that lacks the field it reads
\* returns an empty sequence, with or without a filter argument.
C2_AbsentFieldGivesEmptySequence ==
    (pc = "done" /\ FieldOf(answer.call) \notin DOMAIN md) =>
        /\ answer.out.raised = ""
        /\ answer.out.val = <<>>

\* C4: for a MetadataDict without a creator entry (no 'creator' key, or an
\* empty list) rename_file sets the surname to UNKNOWN and composes the
\* file name.
C4_UnknownSurnameWithoutAuthors ==
    (pc = "done" /\ ("creator" \notin DOMAIN md \/ md["creator"] = <<>>)) =>
        /\ renamed.name = UNKNOWN
        /\ renamed.new_file_name # Unbound

\* the date entries the year is chosen from: those of event publication,
\* or all of them when there is none
YearPool ==
    LET pub == {k \in 1..Len(md["date"]) :
                  event_ \in DOMAIN md["date"][k].attribs
                  /\ md["date"][k].attribs[event_] = publication}
    IN  IF pub # {} THEN {md["date"][k].value : k \in pub}
        ELSE {md["date"][k].value : k \in 1..Len(md["date"])}

SmallestDate == CHOOSE v \in YearPool : \A w \in YearPool : StrCmp(v, w) <= 0

ExpectedYear ==
    IF Len(SmallestDate) >= 4
       /\ \A k \in 1..4 : SmallestDate[k] \in Digits
    THEN SubSeq(SmallestDate, 1, 4)
    ELSE UNKNOWN

\* C7: for a MetadataDict with at least one date entry, the year slot that
\* rename_file computes (it does once the author lookup is past) is the
\* leading four digits of the lexicographically smallest value among the
\* publication dates, or among all dates when none is a publication date,
\* and UNKNOWN when that value does not start with four digits.
C7_YearFromEarliestDate ==
    (pc = "done" /\ "date" \in DOMAIN md /\ md["date"] # <<>>) =>
        /\ "creator" \in DOMAIN md => renamed.pubdate # Unbound
        /\ renamed.pubdate # Unbound => renamed.pubdate = ExpectedYear

C7_Witness ==
    /\ pc = "done"
    /\ "date" \in DOMAIN md /\ Len(md["date"]) = 2
    /\ md["date"][1] =
         MetaValue(<<"2", "0", "0", "5", "-", "0", "3", "-", "0", "1">>,
                   Attr(event_, publication))
    /\ md["date"][2] =
         MetaValue(<<"1", "9", "9", "9", "-", "0", "7", "-", "1", "5">>,
                   Attr(event_, publication))
    /\ renamed.pubdate = <<"1", "9", "9", "9">>

Cleaned(s) == Upper(SelectSeq(s, LAMBDA c : c # "-" /\ c # " "))

ExpectedIsbn ==
    LET ids == md["identifier"]
        by_scheme == {k \in 1..Len(ids) :
                        scheme_ \in DOMAIN ids[k].attribs
                        /\ ids[k].attribs[scheme_] = ISBN}
        by_length == {k \in 1..Len(ids) : Len(Cleaned(ids[k].value)) \in {10, 13}}
    IN  IF by_scheme # {} THEN Cleaned(ids[Least(by_scheme)].value)
        ELSE IF by_length # {} THEN Cleaned(ids[Least(by_length)].value)
        ELSE UNKNOWN

\* C8: for a MetadataDict with at least one identifier, the ISBN slot that
\* rename_file computes (it does once the author and date lookups are past)
\* is the cleaned value of the first identifier of scheme ISBN whatever its
\* length, else the cleaned value of the first identifier whose cleaned
\* form is 10 or 13 long, else UNKNOWN.
C8_IsbnSlot ==
    (pc = "done" /\ "identifier" \in DOMAIN md /\ md["identifier"] # <<>>) =>
        /\ ({"creator", "date"} \subseteq DOMAIN md) => renamed.isbn # Unbound
        /\ renamed.isbn # Unbound => renamed.isbn = ExpectedIsbn

C8_Witness ==
    /\ pc = "done"
    /\ "identifier" \in DOMAIN md /\ Len(md["identifier"]) = 2
    /\ md["identifier"][1] =
         MetaValue(<<"u", "r", "n", ":", "u", "u", "i", "d", ":", "1">>, NoAttribs)
    /\ md["identifier"][2] =
         MetaValue(<<"9", "7", "8", "-", "0", "-", "1", "3", "-", "4", "6",
                     "8", "5", "9", "9", "-", "1">>, Attr(scheme_, ISBN))
    /\ renamed.isbn = <<"9", "7", "8", "0", "1", "3", "4", "6", "8", "5",
                        "9", "9", "1">>

\* C9: when a file already exists under the composed name, or the file
\* system refuses the rename, rename_file raises and the file system is as
\* it was: the original file in place, the existing file not replaced.
C9_RenameFailsLoudly ==
    (pc = "done" /\ renamed.new_file_name # Unbound
     /\ (renamed.new_file_name \in DOMAIN fs0 \/ rejects)) =>
        /\ renamed.raised # ""
        /\ files = fs0

====
